---- MODULE Spec2Model ----
(***************************************************************************)
(* Model of TWIlib.c: an interrupt-driven master-mode TWI (I2C) driver.     *)
(* The public functions TWITransmitData / TWIReadData stage a transfer and  *)
(* arm the hardware; ISR(TWI_vect) advances the transfer one bus event at a *)
(* time.  The TWI hardware itself (which status it reports after which      *)
(* armed action) is the environment of the program.                         *)
(***************************************************************************)
EXTENDS Integers, Sequences, FiniteSets, TLC

(* ------------------------------------------------------------------ *)
(* Bounds of the model.                                                 *)
(* ------------------------------------------------------------------ *)

\* Capacity of TWITransmitBuffer (the header's TXMAXBUFLEN, scaled down).
TXMAXBUFLEN == 2

\* Capacity of TWIReceiveBuffer (the header's RXMAXBUFLEN, scaled down).
RXMAXBUFLEN == 2

\* Requests the caller gets accepted in one run of the model.
MaxTxns == 2

(* ------------------------------------------------------------------ *)
(* Status codes of the TWI hardware, as named by the switch of the ISR. *)
(* ------------------------------------------------------------------ *)

TWI_START_SENT == 8

TWI_REP_START_SENT == 16

TWI_MT_SLAW_ACK == 24

TWI_MT_SLAW_NACK == 32

TWI_MT_DATA_ACK == 40

TWI_MT_DATA_NACK == 48

TWI_LOST_ARBIT == 56

TWI_MR_SLAR_ACK == 64

TWI_MR_SLAR_NACK == 72

TWI_MR_DATA_ACK == 80

TWI_MR_DATA_NACK == 88

TWI_NO_RELEVANT_INFO == 248

TWI_ILLEGAL_START_STOP == 0

\* The literal 0xFF stored in errorCode by TWIInit and on clean completion.
TWI_SUCCESS == 255

(* ------------------------------------------------------------------ *)
(* Inputs.                                                              *)
(* ------------------------------------------------------------------ *)

\* The SLA+W byte (bit 0 clear) and the SLA+R byte (bit 0 set) the caller
\* puts first in a stream handed to TWITransmitData.
SlaW == 160

SlaR == 161

\* The payload byte the caller puts at position i >= 2 of a stream; each
\* position has its own value.
Payload(i) == 16 + i

\* Byte values a slave sends back.
RxVals == {90}

\* A data stream of length n >= 1 that starts with first.
Stream(first, n) == [i \in 1..n |-> IF i = 1 THEN first ELSE Payload(i)]

\* The data streams handed to TWITransmitData: the empty one, SLA+W with
\* every payload length that fits the buffer, SLA+R alone, and one stream
\* that is a byte too long.
TxInputs ==
    {<<>>, <<SlaR>>} \cup {Stream(SlaW, n) : n \in 1..(TXMAXBUFLEN + 1)}

\* bytesToRead values handed to TWIReadData.
RxCounts == 0..(RXMAXBUFLEN + 1)

Modes == {"Ready", "Initializing", "RepeatedStartSent", "MasterTransmitter", "MasterReceiver"}

VARIABLES
    mode,               \* TWIInfo.mode
    errorCode,          \* TWIInfo.errorCode
    repStart,           \* TWIInfo.repStart
    TWITransmitBuffer,  \* index 0..TXMAXBUFLEN-1
    TXBuffLen,
    TXBuffIndex,
    TWIReceiveBuffer,   \* index 0..RXMAXBUFLEN-1
    RXBuffLen,
    RXBuffIndex,
    TWDR,               \* the hardware data register
    twcr,               \* the bus action the hardware is armed with
    hw,                 \* the hardware's position in the bus protocol
    oob,                \* an access outside a buffer has happened; what the
                        \* program does after it is undefined, and the model
                        \* follows the run no further
    call,               \* the last operation run: the value it returned (or the
                        \* status handled) and whether the length asked for was
                        \* above the buffer's capacity
    acts,               \* the Bus Control operations that operation performed
    txn,                \* the last accepted request, with its arguments
    acks,               \* transmit ACK events handled since it was accepted
    trace,              \* the events since it was accepted: "none" so far, "acks"
                        \* (start transmitted, then transmit ACKs only) or "other"
    rxn,                \* bytes stored since it was accepted
    started,            \* requests accepted so far
    staged,             \* the bytes the last accepted request handed over
    sent,               \* the bytes loaded into TWDR for transmission since then
    api                 \* the call in progress when the public functions run
                        \* statement by statement: its position and arguments

progVars == <<mode, errorCode, repStart, TWITransmitBuffer, TXBuffLen, TXBuffIndex,
              TWIReceiveBuffer, RXBuffLen, RXBuffIndex>>

busVars == <<TWDR, twcr, hw>>

ghostVars == <<txn, acks, trace, rxn, started, staged>>

vars == <<progVars, busVars, oob, call, acts, ghostVars, sent, api>>

(* ------------------------------------------------------------------ *)
(* TWIInit, and the zero-initialised globals of the header.             *)
(* ------------------------------------------------------------------ *)

NoCall == [op |-> "init", val |-> 0, long |-> FALSE]

NoTxn == [op |-> "none", n |-> 0, rep |-> FALSE, addr |-> 0]

\* No public function is running.
ApiIdle == [pc |-> "idle", op |-> "none", data |-> <<>>, n |-> 0, rep |-> FALSE,
            i |-> 0, addr |-> 0]

TWIInit ==
    /\ mode = "Ready"
    /\ errorCode = TWI_SUCCESS
    /\ repStart = FALSE

Init ==
    /\ TWIInit
    /\ TWITransmitBuffer = [i \in 0..(TXMAXBUFLEN - 1) |-> 0]
    /\ TXBuffLen = 0
    /\ TXBuffIndex = 0
    /\ TWIReceiveBuffer = [i \in 0..(RXMAXBUFLEN - 1) |-> 0]
    /\ RXBuffLen = 0
    /\ RXBuffIndex = 0
    /\ TWDR = 255
    /\ twcr = "none"
    /\ hw = "free"
    /\ oob = FALSE
    /\ call = NoCall
    /\ acts = <<>>
    /\ txn = NoTxn
    /\ acks = 0
    /\ trace = "none"
    /\ rxn = 0
    /\ started = 0
    /\ staged = <<>>
    /\ sent = <<>>
    /\ api = ApiIdle

(* ------------------------------------------------------------------ *)
(* Public functions.                                                    *)
(* ------------------------------------------------------------------ *)

\* isTWIReady counting a reception in progress as ready.
isTWIReadyInReceiver ==
    (mode = "Ready") \/ (mode = "RepeatedStartSent") \/ (mode = "MasterReceiver")

\* isTWIReady testing the wrong enumerator in its second comparison.
isTWIReadyWrongMode == (mode = "Ready") \/ (mode = "MasterTransmitter")

isTWIReady == (mode = "Ready") \/ (mode = "RepeatedStartSent")

\* The for loop of TWITransmitData filling the buffer back to front.
CopyInReversed(data) ==
    [i \in 0..(TXMAXBUFLEN - 1) |->
        IF i < Len(data) THEN data[Len(data) - i] ELSE TWITransmitBuffer[i]]

\* The for loop of TWITransmitData: data[0..dataLen-1] copied over the
\* front of the buffer, the rest of the buffer left as it was.
CopyIn(data) ==
    [i \in 0..(TXMAXBUFLEN - 1) |->
        IF i < Len(data) THEN data[i + 1] ELSE TWITransmitBuffer[i]]

\* The length check of TWITransmitData, off by one.
TxFitsOffByOne(dataLen) == dataLen <= TXMAXBUFLEN + 1

\* The length check of TWITransmitData.
TxFits(dataLen) == dataLen <= TXMAXBUFLEN

\* The first byte loaded with the index incremented before its use.
TxFirstBytePreIncrement(buf) == buf[1]

\* The first byte TWITransmitData loads when a repeated start is held.
TxFirstByte(buf) == buf[0]

\* The body of TWITransmitData(data, dataLen, rep) returning r.
TransmitBody(data, rep, r) ==
    IF TxFits(Len(data))
    THEN IF ~isTWIReady
         THEN /\ r = 2
              /\ acts' = <<>>
              /\ UNCHANGED <<mode, repStart, TWITransmitBuffer, TXBuffLen, TXBuffIndex,
                             busVars, oob, ghostVars, sent>>
         ELSE /\ r = 0
              /\ repStart' = rep
              /\ TWITransmitBuffer' = CopyIn(data)
              /\ TXBuffLen' = Len(data)
              /\ mode' = "Initializing"
              /\ IF mode = "RepeatedStartSent"
                 THEN /\ TWDR' = TxFirstByte(CopyIn(data))
                      /\ TXBuffIndex' = 1
                      /\ twcr' = "transmit"
                      /\ acts' = <<"load", "transmit">>
                      /\ sent' = <<TxFirstByte(CopyIn(data))>>
                 ELSE /\ TXBuffIndex' = 0
                      /\ twcr' = "start"
                      /\ acts' = <<"start">>
                      /\ sent' = <<>>
                      /\ UNCHANGED TWDR
              /\ staged' = data
              /\ acks' = 0
              /\ trace' = "none"
              /\ rxn' = 0
              /\ started' = started + 1
              /\ UNCHANGED <<hw, oob>>
    ELSE /\ r = 1
         /\ acts' = <<>>
         /\ UNCHANGED <<mode, repStart, TWITransmitBuffer, TXBuffLen, TXBuffIndex,
                        busVars, oob, ghostVars, sent>>

\* The caller may make a call: it has requests left, or the call is one
\* the driver turns away as busy.
MayCall == started < MaxTxns \/ ~isTWIReady

TWITransmitData(data, rep) ==
    /\ ~oob
    /\ MayCall
    /\ \E r \in 0..2 :
        /\ TransmitBody(data, rep, r)
        /\ call' = [op |-> "write", val |-> r, long |-> Len(data) > TXMAXBUFLEN]
        /\ IF r = 0
           THEN txn' = [op |-> "write", n |-> Len(data), rep |-> rep, addr |-> 0]
           ELSE TRUE
    /\ UNCHANGED <<errorCode, TWIReceiveBuffer, RXBuffLen, RXBuffIndex, api>>

\* (TWIaddr << 1) | 0x01 stored in a uint8_t.
ShiftLeft8(x) == (x * 2) % 256

OrOne(x) == IF x % 2 = 1 THEN x ELSE x + 1

\* The address byte without the read bit.
AddrByteNoReadBit(TWIaddr) == ShiftLeft8(TWIaddr)

AddrByte(TWIaddr) == OrOne(ShiftLeft8(TWIaddr))

\* The length check of TWIReadData, off by one.
RxFitsOffByOne(bytesToRead) == bytesToRead <= RXMAXBUFLEN + 1

\* The length check of TWIReadData.
RxFits(bytesToRead) == bytesToRead <= RXMAXBUFLEN

\* What TWIReadData returns for the value TWITransmitData returned.
ReadRet(r) == IF r = 2 THEN 2 ELSE 0

TWIReadData(TWIaddr, bytesToRead, rep) ==
    /\ ~oob
    /\ MayCall
    /\ IF RxFits(bytesToRead)
       THEN /\ RXBuffIndex' = 0
            /\ RXBuffLen' = bytesToRead
            /\ \E r \in 0..2 :
                /\ TransmitBody(<<AddrByte(TWIaddr)>>, rep, r)
                /\ call' = [op |-> "read", val |-> ReadRet(r),
                            long |-> bytesToRead > RXMAXBUFLEN]
                /\ IF r = 0
                   THEN txn' = [op |-> "read", n |-> bytesToRead, rep |-> rep,
                                addr |-> TWIaddr]
                   ELSE TRUE
            /\ UNCHANGED <<errorCode, TWIReceiveBuffer, api>>
       ELSE /\ call' = [op |-> "read", val |-> 1, long |-> bytesToRead > RXMAXBUFLEN]
            /\ acts' = <<>>
            /\ UNCHANGED <<progVars, busVars, oob, ghostVars, sent, api>>

(* ------------------------------------------------------------------ *)
(* The public functions statement by statement: one action for each     *)
(* access to a variable the handler shares.  api.pc names the statement  *)
(* the call in progress runs next.                                       *)
(* ------------------------------------------------------------------ *)

\* The call in progress moves on to statement pc.
Goto(pc) == api' = [api EXCEPT !.pc = pc]

\* The call in progress returns r.
Return(r) ==
    /\ call' = [op |-> api.op, val |-> r, long |-> FALSE]
    /\ api' = ApiIdle

\* The call passed the test of line 78: its request is accepted.
Accept(op, data, n, rep, addr) ==
    /\ txn' = [op |-> op, n |-> n, rep |-> rep, addr |-> addr]
    /\ staged' = data
    /\ sent' = <<>>
    /\ acks' = 0
    /\ trace' = "none"
    /\ rxn' = 0
    /\ started' = started + 1

\* The caller may enter a public function: it has requests left.  (A call
\* entered while a transfer is in flight is accepted if the transfer ends
\* before the call reaches line 78.)
MayEnter == started < MaxTxns

\* TWITransmitData is called: the tests of lines 74 and 78.
WriteEnter(data, rep) ==
    /\ ~oob
    /\ api.pc = "idle"
    /\ MayEnter
    /\ IF TxFits(Len(data)) /\ isTWIReady
       THEN /\ api' = [pc |-> "rep", op |-> "write", data |-> data, n |-> Len(data),
                       rep |-> rep, i |-> 0, addr |-> 0]
            /\ Accept("write", data, Len(data), rep, 0)
            /\ UNCHANGED <<progVars, busVars, oob, call, acts>>
       ELSE /\ call' = [op |-> "write", val |-> IF TxFits(Len(data)) THEN 2 ELSE 1,
                        long |-> Len(data) > TXMAXBUFLEN]
            /\ acts' = <<>>
            /\ UNCHANGED <<progVars, busVars, oob, ghostVars, sent, api>>

\* TWIReadData is called: the test of line 134 and RXBuffIndex = 0.
ReadEnter(TWIaddr, bytesToRead, rep) ==
    /\ ~oob
    /\ api.pc = "idle"
    /\ MayEnter
    /\ IF RxFits(bytesToRead)
       THEN /\ RXBuffIndex' = 0
            /\ api' = [pc |-> "rxlen", op |-> "read", data |-> <<AddrByte(TWIaddr)>>,
                       n |-> bytesToRead, rep |-> rep, i |-> 0, addr |-> TWIaddr]
            /\ UNCHANGED <<mode, errorCode, repStart, TWITransmitBuffer, TXBuffLen,
                           TXBuffIndex, TWIReceiveBuffer, RXBuffLen, busVars, oob,
                           call, acts, ghostVars, sent>>
       ELSE /\ call' = [op |-> "read", val |-> 1, long |-> bytesToRead > RXMAXBUFLEN]
            /\ acts' = <<>>
            /\ UNCHANGED <<progVars, busVars, oob, ghostVars, sent, api>>

\* RXBuffLen = bytesToRead
ReadSetLen ==
    /\ ~oob
    /\ api.pc = "rxlen"
    /\ RXBuffLen' = api.n
    /\ Goto("ready")
    /\ UNCHANGED <<mode, errorCode, repStart, TWITransmitBuffer, TXBuffLen, TXBuffIndex,
                   TWIReceiveBuffer, RXBuffIndex, busVars, oob, call, acts, ghostVars,
                   sent>>

\* TWIReadData calls TWITransmitData(TXdata, 1, repStart): the tests of
\* lines 74 and 78, and the return of 2 passed on.
ReadTransmit ==
    /\ ~oob
    /\ api.pc = "ready"
    /\ IF TxFits(Len(api.data)) /\ isTWIReady
       THEN /\ Goto("rep")
            /\ Accept("read", api.data, api.n, api.rep, api.addr)
            /\ UNCHANGED <<progVars, busVars, oob, call, acts>>
       ELSE /\ Return(IF TxFits(Len(api.data)) THEN 2 ELSE 0)
            /\ acts' = <<>>
            /\ UNCHANGED <<progVars, busVars, oob, ghostVars, sent>>

\* TWIInfo.repStart = repStart
SetRepStart ==
    /\ ~oob
    /\ api.pc = "rep"
    /\ repStart' = api.rep
    /\ Goto(IF Len(api.data) = 0 THEN "len" ELSE "copy")
    /\ UNCHANGED <<mode, errorCode, TWITransmitBuffer, TXBuffLen, TXBuffIndex,
                   TWIReceiveBuffer, RXBuffLen, RXBuffIndex, busVars, oob, call, acts,
                   ghostVars, sent>>

\* TWITransmitBuffer[i] = data[i], one pass of the for loop
CopyByte ==
    /\ ~oob
    /\ api.pc = "copy"
    /\ TWITransmitBuffer' = [TWITransmitBuffer EXCEPT ![api.i] = api.data[api.i + 1]]
    /\ api' = [api EXCEPT !.i = api.i + 1,
                          !.pc = IF api.i + 1 < Len(api.data) THEN "copy" ELSE "len"]
    /\ UNCHANGED <<mode, errorCode, repStart, TXBuffLen, TXBuffIndex,
                   TWIReceiveBuffer, RXBuffLen, RXBuffIndex, busVars, oob, call, acts,
                   ghostVars, sent>>

\* TXBuffLen = dataLen
SetLen ==
    /\ ~oob
    /\ api.pc = "len"
    /\ TXBuffLen' = Len(api.data)
    /\ Goto("idx")
    /\ UNCHANGED <<mode, errorCode, repStart, TWITransmitBuffer, TXBuffIndex,
                   TWIReceiveBuffer, RXBuffLen, RXBuffIndex, busVars, oob, call, acts,
                   ghostVars, sent>>

\* TXBuffIndex = 0
SetIndex ==
    /\ ~oob
    /\ api.pc = "idx"
    /\ TXBuffIndex' = 0
    /\ Goto("branch")
    /\ UNCHANGED <<mode, errorCode, repStart, TWITransmitBuffer, TXBuffLen,
                   TWIReceiveBuffer, RXBuffLen, RXBuffIndex, busVars, oob, call, acts,
                   ghostVars, sent>>

\* if (TWIInfo.mode == RepeatedStartSent)
TestMode ==
    /\ ~oob
    /\ api.pc = "branch"
    /\ Goto(IF mode = "RepeatedStartSent" THEN "modeR" ELSE "modeS")
    /\ UNCHANGED <<progVars, busVars, oob, call, acts, ghostVars, sent>>

\* TWIInfo.mode = Initializing, in either branch
SetMode ==
    /\ ~oob
    /\ api.pc \in {"modeR", "modeS"}
    /\ mode' = "Initializing"
    /\ Goto(IF api.pc = "modeR" THEN "load" ELSE "start")
    /\ UNCHANGED <<errorCode, repStart, TWITransmitBuffer, TXBuffLen, TXBuffIndex,
                   TWIReceiveBuffer, RXBuffLen, RXBuffIndex, busVars, oob, call, acts,
                   ghostVars, sent>>

\* TWDR = TWITransmitBuffer[TXBuffIndex++]
LoadFirst ==
    /\ ~oob
    /\ api.pc = "load"
    /\ IF TXBuffIndex < TXMAXBUFLEN
       THEN /\ TWDR' = TWITransmitBuffer[TXBuffIndex]
            /\ sent' = Append(sent, TWITransmitBuffer[TXBuffIndex])
            /\ UNCHANGED oob
       ELSE /\ oob' = TRUE
            /\ UNCHANGED <<TWDR, sent>>
    /\ TXBuffIndex' = TXBuffIndex + 1
    /\ Goto("xmit")
    /\ UNCHANGED <<mode, errorCode, repStart, TWITransmitBuffer, TXBuffLen,
                   TWIReceiveBuffer, RXBuffLen, RXBuffIndex, twcr, hw, call, acts,
                   ghostVars>>

\* TWISendTransmit(), and return 0
SendTransmit ==
    /\ ~oob
    /\ api.pc = "xmit"
    /\ twcr' = "transmit"
    /\ acts' = <<"load", "transmit">>
    /\ Return(0)
    /\ UNCHANGED <<progVars, TWDR, hw, oob, ghostVars, sent>>

\* TWISendStart(), and return 0
SendStart ==
    /\ ~oob
    /\ api.pc = "start"
    /\ twcr' = "start"
    /\ acts' = <<"start">>
    /\ Return(0)
    /\ UNCHANGED <<progVars, TWDR, hw, oob, ghostVars, sent>>

(* ------------------------------------------------------------------ *)
(* The TWI hardware: which status it can report for the armed action.   *)
(* ------------------------------------------------------------------ *)

\* Statuses the hardware can raise, given the action it is armed with
\* (twcr), its position in the protocol (hw) and the byte in TWDR.
Events ==
    CASE twcr = "start" ->
            IF hw = "free" THEN {TWI_START_SENT} ELSE {TWI_REP_START_SENT}
      [] twcr = "transmit" /\ hw = "started" ->
            IF TWDR % 2 = 0
            THEN {TWI_MT_SLAW_ACK, TWI_MT_SLAW_NACK, TWI_LOST_ARBIT, TWI_ILLEGAL_START_STOP}
            ELSE {TWI_MR_SLAR_ACK, TWI_MR_SLAR_NACK, TWI_LOST_ARBIT, TWI_ILLEGAL_START_STOP}
      [] twcr = "transmit" /\ hw = "mt" ->
            {TWI_MT_DATA_ACK, TWI_MT_DATA_NACK, TWI_LOST_ARBIT, TWI_ILLEGAL_START_STOP}
      [] twcr = "ack" /\ hw = "mr" ->
            {TWI_MR_DATA_ACK, TWI_ILLEGAL_START_STOP}
      [] twcr = "nack" /\ hw = "mr" ->
            {TWI_MR_DATA_NACK, TWI_LOST_ARBIT, TWI_ILLEGAL_START_STOP}
      [] OTHER -> {}

\* The hardware's position once it has reported status.
HwAfter(status) ==
    CASE status \in {TWI_START_SENT, TWI_REP_START_SENT} -> "started"
      [] status \in {TWI_MT_SLAW_ACK, TWI_MT_SLAW_NACK,
                     TWI_MT_DATA_ACK, TWI_MT_DATA_NACK} -> "mt"
      [] status \in {TWI_MR_SLAR_ACK, TWI_MR_SLAR_NACK,
                     TWI_MR_DATA_ACK, TWI_MR_DATA_NACK} -> "mr"
      [] OTHER -> "free"

\* The action the hardware is armed with after the handler ran acts.
Armed(a) == IF a = <<>> THEN "none" ELSE a[Len(a)]

(* ------------------------------------------------------------------ *)
(* ISR(TWI_vect).  Each piece yields the handler's effect as a record   *)
(* of the values it leaves behind.                                      *)
(* ------------------------------------------------------------------ *)

\* The values before the handler runs, with rx the byte in TWDR.
Before(rx) ==
    [mode |-> mode, errorCode |-> errorCode, TWDR |-> rx,
     TXBuffIndex |-> TXBuffIndex, RXBuffIndex |-> RXBuffIndex,
     TWIReceiveBuffer |-> TWIReceiveBuffer, acts |-> <<>>, oob |-> FALSE,
     sent |-> sent]

\* The test for more data to send, off by one.
MoreToSendOffByOne == TXBuffIndex <= TXBuffLen

\* if (TXBuffIndex < TXBuffLen)
MoreToSend == TXBuffIndex < TXBuffLen

\* The end of a transfer: repeated start held, or bus released.
Finish(s, code) ==
    IF repStart
    THEN [s EXCEPT !.errorCode = code, !.acts = <<"start">>]
    ELSE [s EXCEPT !.mode = "Ready", !.errorCode = code, !.acts = <<"stop">>]

\* case TWI_START_SENT / TWI_MT_DATA_ACK (and the tail of TWI_MT_SLAW_ACK).
TxStep(s) ==
    IF MoreToSend
    THEN IF TXBuffIndex < TXMAXBUFLEN
         THEN [s EXCEPT !.TWDR = TWITransmitBuffer[TXBuffIndex],
                        !.TXBuffIndex = TXBuffIndex + 1,
                        !.errorCode = TWI_NO_RELEVANT_INFO,
                        !.acts = <<"load", "transmit">>,
                        !.sent = Append(sent, TWITransmitBuffer[TXBuffIndex])]
         ELSE [s EXCEPT !.oob = TRUE]
    ELSE Finish(s, TWI_SUCCESS)

\* case TWI_MT_SLAW_ACK
SlawAck(s) == TxStep([s EXCEPT !.mode = "MasterTransmitter"])

\* The start case placed above the assignment of mode.
StartSentSetsMode(s) == SlawAck(s)

\* case TWI_START_SENT: the label stands below the assignment of mode.
StartSent(s) == TxStep(s)

\* if (RXBuffIndex < RXBuffLen-1), with idx the index after any store.
MoreToReceive(idx) == idx < RXBuffLen - 1

\* The reply to the next incoming byte with errorCode left as it was.
ReplyKeepsCode(s) ==
    IF MoreToReceive(s.RXBuffIndex)
    THEN [s EXCEPT !.acts = <<"ack">>]
    ELSE [s EXCEPT !.acts = <<"nack">>]

\* The reply to the next incoming byte.
Reply(s) ==
    IF MoreToReceive(s.RXBuffIndex)
    THEN [s EXCEPT !.errorCode = TWI_NO_RELEVANT_INFO, !.acts = <<"ack">>]
    ELSE [s EXCEPT !.errorCode = TWI_NO_RELEVANT_INFO, !.acts = <<"nack">>]

\* case TWI_MR_SLAR_ACK
SlarAck(s) == Reply([s EXCEPT !.mode = "MasterReceiver"])

\* TWIReceiveBuffer[RXBuffIndex++] = TWDR
Store(s) ==
    IF RXBuffIndex < RXMAXBUFLEN
    THEN [s EXCEPT !.TWIReceiveBuffer = [TWIReceiveBuffer EXCEPT ![RXBuffIndex] = s.TWDR],
                   !.RXBuffIndex = RXBuffIndex + 1]
    ELSE [s EXCEPT !.oob = TRUE, !.RXBuffIndex = RXBuffIndex + 1]

\* case TWI_MR_DATA_ACK
MrDataAck(s) == Reply(Store(s))

\* case TWI_MR_DATA_NACK
MrDataNack(s) == Finish(Store(s), TWI_SUCCESS)

\* The error case releasing the bus whatever repStart says.
BusErrorAlwaysStops(s, status) ==
    [s EXCEPT !.mode = "Ready", !.errorCode = status, !.acts = <<"stop">>]

\* The error case recording 0xFF instead of the status.
BusErrorDropsCode(s, status) == Finish(s, TWI_SUCCESS)

\* case TWI_MR_SLAR_NACK / TWI_MT_SLAW_NACK / TWI_MT_DATA_NACK / TWI_LOST_ARBIT
BusError(s, status) == Finish(s, status)

\* case TWI_REP_START_SENT
RepStartSent(s) == [s EXCEPT !.mode = "RepeatedStartSent"]

\* The illegal start/stop case keeping the bus when repStart is set.
IllegalStartStopHonoursRep(s) == Finish(s, TWI_ILLEGAL_START_STOP)

\* case TWI_ILLEGAL_START_STOP
IllegalStartStop(s) ==
    [s EXCEPT !.errorCode = TWI_ILLEGAL_START_STOP, !.mode = "Ready", !.acts = <<"stop">>]

\* switch (TWI_STATUS)
Handler(status, rx) ==
    LET s == Before(rx) IN
    CASE status = TWI_MT_SLAW_ACK -> SlawAck(s)
      [] status = TWI_START_SENT -> StartSent(s)
      [] status = TWI_MT_DATA_ACK -> TxStep(s)
      [] status = TWI_MR_SLAR_ACK -> SlarAck(s)
      [] status = TWI_MR_DATA_ACK -> MrDataAck(s)
      [] status = TWI_MR_DATA_NACK -> MrDataNack(s)
      [] status \in {TWI_MR_SLAR_NACK, TWI_MT_SLAW_NACK,
                     TWI_MT_DATA_NACK, TWI_LOST_ARBIT} -> BusError(s, status)
      [] status = TWI_REP_START_SENT -> RepStartSent(s)
      [] status = TWI_NO_RELEVANT_INFO -> s
      [] status = TWI_ILLEGAL_START_STOP -> IllegalStartStop(s)
      [] OTHER -> s

\* The byte the hardware leaves in TWDR when it reports status.
Incoming(status) ==
    IF status \in {TWI_MR_DATA_ACK, TWI_MR_DATA_NACK} THEN RxVals ELSE {TWDR}

\* The events since the request was accepted, once status is handled.
TraceAfter(status) ==
    CASE trace = "none" /\ status = TWI_START_SENT -> "acks"
      [] trace = "acks" /\ status \in {TWI_MT_SLAW_ACK, TWI_MT_DATA_ACK} -> "acks"
      [] OTHER -> "other"

Saturate(k, cap) == IF k < cap THEN k + 1 ELSE k

\* The handler run for status, whatever made the hardware report it.
Dispatch(status) ==
    /\ ~oob
    /\ \E rx \in Incoming(status) :
        LET h == Handler(status, rx) IN
        /\ mode' = h.mode
        /\ errorCode' = h.errorCode
        /\ TWDR' = h.TWDR
        /\ TXBuffIndex' = h.TXBuffIndex
        /\ RXBuffIndex' = h.RXBuffIndex
        /\ TWIReceiveBuffer' = h.TWIReceiveBuffer
        /\ oob' = h.oob
        /\ sent' = h.sent
        /\ acts' = h.acts
        /\ twcr' = Armed(h.acts)
        /\ hw' = IF Armed(h.acts) = "stop" THEN "free" ELSE HwAfter(status)
    /\ call' = [op |-> "isr", val |-> status, long |-> FALSE]
    /\ acks' = IF status \in {TWI_MT_SLAW_ACK, TWI_MT_DATA_ACK} THEN acks + 1 ELSE acks
    /\ trace' = TraceAfter(status)
    /\ rxn' = IF status \in {TWI_MR_DATA_ACK, TWI_MR_DATA_NACK}
              THEN Saturate(rxn, RXMAXBUFLEN + 1) ELSE rxn
    /\ UNCHANGED <<repStart, TWITransmitBuffer, TXBuffLen, RXBuffLen, txn, started,
                   staged, api>>

\* The handler run for a status the hardware reports for the armed action.
ISR(status) == status \in Events /\ Dispatch(status)

(* ------------------------------------------------------------------ *)
(* Specifications.                                                      *)
(* ------------------------------------------------------------------ *)

\* The slave address used where the address value is not the point (its
\* top bit is set).
FewAddrs == {208}

StatusCodes == {TWI_START_SENT, TWI_REP_START_SENT, TWI_MT_SLAW_ACK, TWI_MT_SLAW_NACK,
                TWI_MT_DATA_ACK, TWI_MT_DATA_NACK, TWI_LOST_ARBIT, TWI_MR_SLAR_ACK,
                TWI_MR_SLAR_NACK, TWI_MR_DATA_ACK, TWI_MR_DATA_NACK,
                TWI_ILLEGAL_START_STOP}

Write == \E data \in TxInputs, rep \in BOOLEAN : TWITransmitData(data, rep)

Read == \E a \in FewAddrs, n \in RxCounts, rep \in BOOLEAN : TWIReadData(a, n, rep)

Interrupt == \E status \in StatusCodes : ISR(status)

Next == Write \/ Read \/ Interrupt

Spec == Init /\ [][Next]_vars

\* Every value of uint8_t TWIaddr.
Addrs == 0..255

\* The specification for the address byte: the caller's first request may
\* be a read of any address, after which it makes no further call;
\* otherwise its reads use FewAddrs.
OneShot == txn.op = "read" /\ txn.addr \notin FewAddrs

ReadFirst ==
    /\ started = 0
    /\ \E a \in Addrs, n \in RxCounts, rep \in BOOLEAN : TWIReadData(a, n, rep)

ReadMore == started > 0 /\ ~OneShot /\ Read

WriteMore == ~OneShot /\ Write

NextAddr == WriteMore \/ ReadFirst \/ ReadMore \/ Interrupt

SpecAddr == Init /\ [][NextAddr]_vars

\* The specification for termination: the caller makes a call only when
\* isTWIReady() holds, so none while a transfer is in flight, and may stop
\* calling at any time; the hardware reports a status for every armed
\* action and the handler is run for it.
WriteWhenReady == isTWIReady /\ Write

ReadWhenReady == isTWIReady /\ Read

NextLive == WriteWhenReady \/ ReadWhenReady \/ Interrupt

SpecLive == Init /\ [][NextLive]_vars /\ WF_vars(Interrupt)

\* A status the switch of the handler has no case label for: 0x68,
\* arbitration lost and own SLA+W received, one of the slave-mode codes.
Unmapped == {104}

\* The specification for statuses out of turn: besides the statuses that
\* answer the armed action, the handler is entered in any state with an
\* unmapped status or with illegal start/stop.  The caller calls only when
\* isTWIReady() holds.
Stray == \E status \in Unmapped : Dispatch(status)

IllegalAnywhere == Dispatch(TWI_ILLEGAL_START_STOP)

NextStray ==
    WriteWhenReady \/ ReadWhenReady \/ Interrupt \/ Stray \/ IllegalAnywhere

SpecStray == Init /\ [][NextStray]_vars

\* The specification for preemption: the public functions run statement
\* by statement, and the handler runs between any two statements
\* whenever the hardware has a status to report.
\* The caller hands over the extreme lengths: nothing, a full buffer, and
\* one byte more than fits.
StepTxInputs == {<<>>, Stream(SlaW, TXMAXBUFLEN), Stream(SlaW, TXMAXBUFLEN + 1)}

StepRxCounts == {0, RXMAXBUFLEN, RXMAXBUFLEN + 1}

EnterWrite == \E data \in StepTxInputs, rep \in BOOLEAN : WriteEnter(data, rep)

EnterRead ==
    \E a \in FewAddrs, n \in StepRxCounts, rep \in BOOLEAN : ReadEnter(a, n, rep)

NextSteps ==
    \/ EnterWrite
    \/ EnterRead
    \/ ReadSetLen
    \/ ReadTransmit
    \/ SetRepStart
    \/ CopyByte
    \/ SetLen
    \/ SetIndex
    \/ TestMode
    \/ SetMode
    \/ LoadFirst
    \/ SendTransmit
    \/ SendStart
    \/ Interrupt

SpecSteps == Init /\ [][NextSteps]_vars

(* ------------------------------------------------------------------ *)
(* Properties.                                                          *)
(* ------------------------------------------------------------------ *)

\* A transaction is in flight: mode is Initializing, MasterTransmitter or
\* MasterReceiver.
Busy == mode \in {"Initializing", "MasterTransmitter", "MasterReceiver"}

\* The step is a call of TWIReadData / TWITransmitData.
ReadCall == call'.op = "read"

WriteCall == call'.op = "write"

\* C1: a TWIReadData call made while a transaction is in flight, with
\* bytesToRead within the receive capacity, returns 2 and changes none of
\* mode, errorCode, repStart, the transmit buffer, its length and index,
\* the receive length and the receive index.
C1_BusyReadChangesNothing ==
    [][(Busy /\ ReadCall /\ ~call'.long)
          => /\ call'.val = 2
             /\ UNCHANGED <<mode, errorCode, repStart, TWITransmitBuffer,
                            TXBuffLen, TXBuffIndex, RXBuffLen, RXBuffIndex>>]_vars

\* C2: a TWITransmitData call made while a transaction is in flight, with
\* a length within the transmit capacity, returns 2, changes no variable
\* of the driver and performs no bus operation.
C2_BusyWriteChangesNothing ==
    [][(Busy /\ WriteCall /\ ~call'.long)
          => /\ call'.val = 2
             /\ acts' = <<>>
             /\ UNCHANGED <<progVars, busVars>>]_vars

\* C2 happens: a write was turned away while bytes were being sent.
C2_Witness ==
    /\ mode = "MasterTransmitter"
    /\ call = [op |-> "write", val |-> 2, long |-> FALSE]
    /\ TXBuffIndex > 0

\* C3: a TWITransmitData call with a length above the transmit capacity
\* returns 1 in every mode, performs no bus operation and changes no
\* variable of the driver.
C3_LongWriteRejected ==
    [][(WriteCall /\ call'.long)
          => /\ call'.val = 1
             /\ acts' = <<>>
             /\ UNCHANGED <<progVars, busVars>>]_vars

\* C3 happens: an over-long write was turned away while the driver was
\* ready and holding a repeated start.
C3_Witness ==
    /\ mode = "RepeatedStartSent"
    /\ call = [op |-> "write", val |-> 1, long |-> TRUE]

\* C4: a TWIReadData call with bytesToRead above the receive capacity
\* returns 1 in every mode, performs no bus operation and changes no
\* variable of the driver.
C4_LongReadRejected ==
    [][(ReadCall /\ call'.long)
          => /\ call'.val = 1
             /\ acts' = <<>>
             /\ UNCHANGED <<progVars, busVars>>]_vars

\* C4 happens: an over-long read was turned away in the middle of a
\* reception.
C4_Witness ==
    /\ mode = "MasterReceiver"
    /\ RXBuffIndex > 0
    /\ call = [op |-> "read", val |-> 1, long |-> TRUE]

\* The state is the one the handler left: the last step was ISR(status).
Handled(status) == call.op = "isr" /\ call.val = status

AfterHandler == call.op = "isr"

\* C5: in a write of n bytes without repeated start, begun from Ready,
\* for which the bus has reported start-transmitted and then only
\* transmit ACKs: the handler has handled at most n ACK events; the step
\* that handles the n-th (the start event when n = 0) requests a stop and
\* leaves mode = Ready and errorCode = 0xFF; every earlier step loads a
\* byte and requests transmit, and requests neither start nor stop.
C5_WriteAllAck ==
    (AfterHandler /\ txn.op = "write" /\ ~txn.rep /\ trace = "acks")
        => /\ acks <= txn.n
           /\ IF acks = txn.n
              THEN /\ acts = <<"stop">>
                   /\ twcr = "stop"
                   /\ mode = "Ready"
                   /\ errorCode = TWI_SUCCESS
              ELSE /\ acts = <<"load", "transmit">>
                   /\ mode # "Ready"

\* C5 happens: a write that fills the buffer has been ACKed to its end.
C5_Witness ==
    /\ AfterHandler
    /\ txn = [op |-> "write", n |-> TXMAXBUFLEN, rep |-> FALSE, addr |-> 0]
    /\ trace = "acks"
    /\ acks = TXMAXBUFLEN
    /\ mode = "Ready"

\* C6: in a read of n >= 1 bytes whose address was ACKed, the handler
\* replies ACK to incoming bytes 0..n-2 and NACK to byte n-1; once the
\* byte that was NACKed is stored the receive index is n and, without
\* repeated start, mode is Ready and a stop has been requested.
C6_ReadReplies ==
    (AfterHandler /\ txn.op = "read" /\ txn.n >= 1)
        => /\ call.val \in {TWI_MR_SLAR_ACK, TWI_MR_DATA_ACK}
              => acts = IF rxn < txn.n - 1 THEN <<"ack">> ELSE <<"nack">>
           /\ call.val = TWI_MR_DATA_NACK
              => /\ RXBuffIndex = txn.n
                 /\ ~txn.rep => (mode = "Ready" /\ acts = <<"stop">>)

\* The statuses that report a failed transfer and leave the bus usable.
ErrorStatuses == {TWI_MR_SLAR_NACK, TWI_MT_SLAW_NACK, TWI_MT_DATA_NACK, TWI_LOST_ARBIT}

\* C7 as stated: in a transaction started with repeated start the handler
\* never requests a stop and never sets mode = Ready, whatever status it
\* handles, illegal start/stop included.
C7_RepStartNeverStops ==
    (AfterHandler /\ txn.rep) => (mode # "Ready" /\ acts # <<"stop">>)

\* C7, amended: in a transaction started with repeated start, for every
\* status other than illegal start/stop, the handler never requests a stop
\* and never sets mode = Ready; a step that ends the transfer (an error
\* status, the last received byte, or nothing left to send) requests a
\* start; and handling repeated-start-transmitted sets mode =
\* RepeatedStartSent and requests nothing.
C7_RepStartHolds ==
    (AfterHandler /\ txn.rep /\ call.val # TWI_ILLEGAL_START_STOP)
        => /\ mode # "Ready"
           /\ acts # <<"stop">>
           /\ call.val \in ErrorStatuses => (acts = <<"start">> /\ errorCode = call.val)
           /\ call.val = TWI_MR_DATA_NACK
                => (acts = <<"start">> /\ errorCode = TWI_SUCCESS)
           /\ call.val \in {TWI_START_SENT, TWI_MT_SLAW_ACK, TWI_MT_DATA_ACK}
                => \/ acts = <<"load", "transmit">>
                   \/ (acts = <<"start">> /\ errorCode = TWI_SUCCESS
                       /\ TXBuffIndex >= TXBuffLen)
           /\ call.val = TWI_REP_START_SENT
                => (mode = "RepeatedStartSent" /\ acts = <<>> /\ twcr = "none")

\* C7 happens: a transaction with repeated start had a data byte NACKed,
\* asked for a start, and now holds the repeated start.
C7_Witness ==
    /\ Handled(TWI_REP_START_SENT)
    /\ txn.rep
    /\ errorCode = TWI_MT_DATA_NACK
    /\ mode = "RepeatedStartSent"

\* C8: a call accepted while mode = RepeatedStartSent requests no start:
\* it sets mode = Initializing, loads byte 0 of the transmit buffer (for
\* TWIReadData the address byte with the read bit) into TWDR, leaves the
\* transmit index at 1 and requests one transmit; a call accepted while
\* mode = Ready requests one start, loads nothing and leaves the index 0.
C8_AcceptedCall ==
    [][((WriteCall \/ ReadCall) /\ call'.val = 0)
          => /\ mode' = "Initializing"
             /\ IF mode = "RepeatedStartSent"
                THEN /\ acts' = <<"load", "transmit">>
                     /\ TWDR' = TWITransmitBuffer'[0]
                     /\ ReadCall => TWDR' = 2 * (txn'.addr % 128) + 1
                     /\ TXBuffIndex' = 1
                ELSE /\ mode = "Ready"
                     /\ acts' = <<"start">>
                     /\ TWDR' = TWDR
                     /\ TXBuffIndex' = 0]_vars

\* C8 happens: a read was accepted on a held repeated start.
C8_Witness ==
    /\ call = [op |-> "read", val |-> 0, long |-> FALSE]
    /\ acts = <<"load", "transmit">>
    /\ TXBuffIndex = 1

\* C9: when the handler handles arbitration lost, an address NACK or a
\* data NACK while repStart is clear, it leaves errorCode equal to that
\* status and mode = Ready and requests a stop.
C9_ErrorReleasesBus ==
    (AfterHandler /\ call.val \in ErrorStatuses /\ ~repStart)
        => /\ errorCode = call.val
           /\ mode = "Ready"
           /\ acts = <<"stop">>
           /\ twcr = "stop"

\* C9 happens: arbitration was lost after bytes had been sent.
C9_Witness ==
    /\ Handled(TWI_LOST_ARBIT)
    /\ ~repStart
    /\ TXBuffIndex = TXMAXBUFLEN
    /\ mode = "Ready"

HandlerStep == call'.op = "isr"

\* The step is a call of a public function.
ApiCall == call'.op \in {"read", "write"}

\* Bus operations that end a transfer, and those that continue one.
EndingActs == {<<"start">>, <<"stop">>}

ContinuingActs == {<<"load", "transmit">>, <<"ack">>, <<"nack">>}

\* C11 as stated: errorCode changes only in a handler step that ends a
\* transfer, one that requests a stop or a start; every other step leaves
\* it as it was.
C11_StickyErrorCode ==
    [][errorCode' # errorCode => (HandlerStep /\ acts' \in EndingActs)]_vars

\* C11, amended: no call of a public function changes errorCode; a handler
\* step that loads the next byte or replies ACK or NACK sets errorCode to
\* TWI_NO_RELEVANT_INFO; a handler step that requests a start or a stop
\* sets it to 0xFF or to the status handled; a handler step that requests
\* nothing leaves it as it was.
C11_ErrorCodeWrites ==
    [][/\ ApiCall => errorCode' = errorCode
       /\ HandlerStep =>
            /\ acts' \in ContinuingActs => errorCode' = TWI_NO_RELEVANT_INFO
            /\ acts' \in EndingActs => errorCode' \in {TWI_SUCCESS, call'.val}
            /\ acts' = <<>> => errorCode' = errorCode]_vars

\* C11 happens: in the caller's second transfer the handler has replied to
\* an address ACK, and errorCode no longer holds the first transfer's
\* outcome.
C11_Witness ==
    /\ Handled(TWI_MR_SLAR_ACK)
    /\ started = 2
    /\ acts \in {<<"ack">>, <<"nack">>}
    /\ errorCode = TWI_NO_RELEVANT_INFO

\* The last step was a call that was accepted.
Accepted == call.op \in {"read", "write"} /\ call.val = 0

C13_UnmappedHandled ==
    (AfterHandler /\ call.val \in Unmapped)
        => /\ (mode = "Ready" /\ acts = <<"stop">>) \/ errorCode = call.val
           /\ mode \in Modes

\* C14: when the handler handles illegal start/stop, it leaves errorCode
\* equal to that status and mode = Ready and requests a stop and no start,
\* whatever repStart is and whatever mode it was entered in.
C14_IllegalStartStopAborts ==
    [][(HandlerStep /\ call'.val = TWI_ILLEGAL_START_STOP)
          => /\ errorCode' = TWI_ILLEGAL_START_STOP
             /\ mode' = "Ready"
             /\ acts' = <<"stop">>
             /\ twcr' = "stop"
             /\ repStart' = repStart]_vars

\* C14 happens: illegal start/stop was handled with repStart set after the
\* whole of a write that fills the buffer had been sent, and the bus was
\* released.
C14_Witness ==
    /\ Handled(TWI_ILLEGAL_START_STOP)
    /\ repStart
    /\ txn.op = "write"
    /\ acks = TXMAXBUFLEN
    /\ TXBuffIndex = TXMAXBUFLEN
    /\ mode = "Ready"
    /\ twcr = "stop"

\* C15 as stated: after the handler has handled start-transmitted and
\* loaded the first byte, mode = MasterTransmitter, as after an address
\* ACK.
C15_StartSetsTransmitter ==
    (Handled(TWI_START_SENT) /\ acts = <<"load", "transmit">>)
        => mode = "MasterTransmitter"

\* C15, amended: handling start-transmitted leaves mode as it was
\* (Initializing in a transfer begun from Ready), unless nothing is left to
\* send and repStart is clear, when it sets Ready and requests a stop; only
\* handling the address ACK sets mode = MasterTransmitter.
C15_StartKeepsMode ==
    [][HandlerStep =>
         /\ call'.val = TWI_START_SENT
              => mode' = IF acts' = <<"stop">> THEN "Ready" ELSE mode
         /\ call'.val = TWI_MT_SLAW_ACK
              => mode' = IF acts' = <<"stop">> THEN "Ready" ELSE "MasterTransmitter"]_vars

\* C15 happens: start-transmitted was handled, the first byte loaded, and
\* mode is still Initializing.
C15_Witness ==
    /\ Handled(TWI_START_SENT)
    /\ acts = <<"load", "transmit">>
    /\ TXBuffIndex = 1
    /\ mode = "Initializing"

\* C16: in every reachable state the transmit index is at most the
\* transmit length, which is at most the transmit capacity, and the
\* receive index is at most the receive length, which is at most the
\* receive capacity.
C16_CursorsWithinLengths ==
    /\ TXBuffIndex <= TXBuffLen
    /\ TXBuffLen <= TXMAXBUFLEN
    /\ RXBuffIndex <= RXBuffLen
    /\ RXBuffLen <= RXMAXBUFLEN

\* C17: the handler never stores a received byte at an index outside
\* TWIReceiveBuffer and never loads a byte from an index outside
\* TWITransmitBuffer; the bus reports data received / ACK returned only
\* after an ACK reply and data received / NACK returned only after a NACK
\* reply.
C17_NoOutOfBounds == ~oob

\* The step is a statement of a public function that moves the call on.
ApiStatement == api' # api

\* C18: a statement of a public function changes mode only when mode is
\* Ready or RepeatedStartSent at that moment, and then to Initializing;
\* when mode is Initializing, MasterTransmitter or MasterReceiver only a
\* run of the handler changes it.  The public functions run statement by
\* statement and the handler runs between any two of them.
C18_ApiChangesModeOnlyWhenReady ==
    [][mode' # mode =>
         IF ApiStatement
         THEN mode \in {"Ready", "RepeatedStartSent"} /\ mode' = "Initializing"
         ELSE HandlerStep]_vars

\* C18 happens: a call entered while a repeated start was held has set
\* mode = Initializing and has its first byte still to load.
C18_Witness ==
    /\ api.pc = "load"
    /\ mode = "Initializing"
    /\ hw = "started"
    /\ twcr = "none"

\* The call in progress has made the first of its writes to the variables
\* shared with the handler and has at least one more to make.
MidStaging ==
    \/ api.pc \in {"rxlen", "copy", "len", "idx", "branch", "modeR", "modeS", "load"}
    \/ api.pc = "rep" /\ api.op = "read"

\* The statuses whose case reads none of the buffers, lengths, indexes or
\* repStart.
BlindStatuses == {TWI_REP_START_SENT, TWI_ILLEGAL_START_STOP}

\* C19: no run of the handler that reads the buffers, their lengths and
\* indexes or repStart takes place between the first and the last write
\* of a call of TWITransmitData or TWIReadData to those variables.
C19_NoHandlerMidStaging ==
    [][(HandlerStep /\ ~ApiStatement /\ call'.val \notin BlindStatuses)
          => ~MidStaging]_vars

\* The statuses at which the handler goes on with a transmission.
TxStatuses == {TWI_START_SENT, TWI_MT_SLAW_ACK, TWI_MT_DATA_ACK}

\* C20: in an accepted write of n >= 1 bytes the bytes loaded for
\* transmission are data[0], data[1], ..., data[n-1], each once and in
\* order: the accepting call loads data[0] when it starts from
\* RepeatedStartSent and nothing when it starts from Ready; at every
\* start-transmitted or transmit-ACK status the handler loads the next
\* byte not yet loaded and requests transmit, or, once all n are loaded,
\* loads nothing and ends the transfer; no other step loads a byte.
C20_BytesInOrder ==
    [][(txn'.op = "write" /\ txn'.n >= 1) =>
         CASE WriteCall /\ call'.val = 0 ->
                /\ Len(staged') = txn'.n
                /\ sent' = IF mode = "RepeatedStartSent" THEN <<staged'[1]>> ELSE <<>>
           [] HandlerStep /\ call'.val \in TxStatuses ->
                IF Len(sent) < txn.n
                THEN /\ sent' = Append(sent, staged[Len(sent) + 1])
                     /\ TWDR' = staged[Len(sent) + 1]
                     /\ acts' = <<"load", "transmit">>
                ELSE /\ sent' = sent
                     /\ acts' \in EndingActs
           [] OTHER -> sent' = sent /\ staged' = staged]_vars

\* C20 happens: a write that fills the buffer, begun on a held repeated
\* start, has had every byte ACKed and has ended with all of its bytes
\* loaded, in order.
C20_Witness ==
    /\ Handled(TWI_MT_DATA_ACK)
    /\ txn.op = "write"
    /\ txn.n = TXMAXBUFLEN
    /\ trace = "other"
    /\ acks = TXMAXBUFLEN
    /\ sent = staged
    /\ sent = Stream(SlaW, TXMAXBUFLEN)
    /\ acts \in EndingActs

====
